---- MODULE Spec2Model ----
(***************************************************************************)
(* Order lifecycle core of menuflow: POST /api/orders (table resolution,   *)
(* merge or create), PATCH /api/orders/:id/status (status write, bill      *)
(* generation, archival timer), the archival timer callback and            *)
(* PATCH /api/orders/:id/items, over the DatabaseStorage order and bill    *)
(* tables.  Every `await` of a handler is a point where other handlers and *)
(* timer callbacks may run, so each handler is a sequence of steps, one    *)
(* per storage call whose result or effect another handler can observe.    *)
(*                                                                         *)
(* Money is counted in cents: a price "2.00" is 200.  On such values       *)
(* parseFloat, the float sum and toFixed(2) are exact, so the total is the *)
(* integer sum.  Order ids are 1, 2, ... in insertion order, which is also *)
(* the createdAt order; 0 stands for null / undefined.                     *)
(***************************************************************************)
EXTENDS Integers, Sequences, FiniteSets, Bags, TLC

\* ------------------------------------------------------------------ bounds
MaxRequests == 3
MaxOrders == 2
MaxConcurrent == 2
MaxConns == 3
MaxBroadcasts == 2

\* ------------------------------------------------------- static test data
Vendors == {"v1", "v2"}

\* rows of the tables table; ids and table numbers are both strings
Tables ==
  { [id |-> "t1", vendorId |-> "v1", tableNumber |-> "7"],
    [id |-> "t2", vendorId |-> "v2", tableNumber |-> "7"],
    [id |-> "t3", vendorId |-> "v2", tableNumber |-> "t1"] }

\* table references a request may carry ("" is the empty / null reference)
TableRefs == {"", "t1", "7", "t2", "zz"}

Statuses == {"new", "preparing", "ready", "completed"}
ActiveStatuses == {"new", "preparing", "ready"}

\* status values a PATCH .../status request may carry
StatusInputs == Statuses \cup {"cancelled"}

\* status / archived a POST /api/orders body may carry (schema default when absent)
BodyStatuses == {"new", "completed"}
BodyArchived == {FALSE}

Tea1 == [menuItemId |-> "m1", name |-> "Tea", price |-> 200, quantity |-> 1]
Tea2 == [menuItemId |-> "m1", name |-> "Chai", price |-> 250, quantity |-> 2]
Cake1 == [menuItemId |-> "m2", name |-> "Cake", price |-> 300, quantity |-> 1]

\* menu_items rows at start; "m9" names no row
MenuIds == {"m1", "m2", "m9"}
InitialMenu ==
  [m \in MenuIds |->
     IF m = "m1" THEN [exists |-> TRUE, name |-> "Tea", price |-> 200]
     ELSE IF m = "m2" THEN [exists |-> TRUE, name |-> "Cake", price |-> 300]
     ELSE [exists |-> FALSE, name |-> "", price |-> 0]]

\* a line of a PATCH .../items body: the caller sends its own name and price
EditLine(menuItemId, quantity) ==
  [menuItemId |-> menuItemId, name |-> "caller", price |-> 1, quantity |-> quantity]

\* item lists a PATCH .../items body may carry
EditItems ==
  { <<>>,
    <<EditLine("m1", 3)>>,
    <<EditLine("m2", 1), EditLine("m9", 1)>> }

\* items and totalAmount a POST /api/orders body may carry; the schema asks
\* of totalAmount only that it is a decimal string, and the second body's
\* total is not the sum of its items (300 + 2 * 250)
OrderBodies ==
  { [items |-> <<Tea1>>, totalAmount |-> 200],
    [items |-> <<Cake1, Tea2>>, totalAmount |-> 900] }

\* ----------------------------------------------------------------- state
VARIABLES
  orders,         \* orders table: sequence of rows, row i has id i
  bills,          \* bills table: sequence of rows
  reqs,           \* request handlers, in arrival order: locals and position
  nreq,           \* number of requests received so far
  archiveTimers,  \* Map orderId -> timer handle (0: no entry)
  timers,         \* timer handle -> state of that setTimeout and its callback
  sent,           \* bag of messages passed to broadcastToVendor
  clock,          \* source of new Date()
  menu,           \* menu_items table: menuItemId -> row (exists FALSE: no row)
  response,       \* the response sent last
  everCompleted   \* history: ids of the orders whose stored status was ever completed

\* the WebSocket side of the server
VARIABLES
  vendorConnections,  \* Map vendorId -> list of connections (absent: empty list)
  sockets,            \* connection -> the vendorId of its URL and its readyState
  inbox               \* connection -> the messages ws.send has passed to it

wsVars == <<vendorConnections, sockets, inbox>>

vars == <<orders, bills, reqs, nreq, archiveTimers, timers, sent, clock, menu, response,
          everCompleted, vendorConnections, sockets, inbox>>

Slots == 1..MaxRequests

Conns == 1..MaxConns

NoSocket == [vendorId |-> "", readyState |-> "NONE"]

\* no client has connected to /ws
NoClients ==
  /\ vendorConnections = [v \in Vendors |-> <<>>]
  /\ sockets = [c \in Conns |-> NoSocket]
  /\ inbox = [c \in Conns |-> <<>>]
OrderIds == 1..MaxOrders

NoReq ==
  [kind |-> "none", pc |-> "idle", vendorId |-> "", tableRef |-> "", tableId |-> "",
   items |-> <<>>, totalAmount |-> 0, status |-> "", archived |-> FALSE,
   orderId |-> 0, orderNumber |-> 0, snapItems |-> <<>>, snapTotal |-> 0,
   idx |-> 0, menuItemId |-> "", menuName |-> "", menuPrice |-> 0,
   existingTimer |-> 0]

NoResponse ==
  [req |-> 0, kind |-> "none", tableRef |-> "", code |-> 0, path |-> "",
   orderId |-> 0, orderNumber |-> 0]

NoTimer == [state |-> "none", orderId |-> 0, vendorId |-> ""]

\* ------------------------------------------------------------ pure helpers
RECURSIVE SumItems(_)
SumItems(items) ==
  IF items = <<>> THEN 0
  ELSE items[1].price * items[1].quantity + SumItems(Tail(items))

\* index of the first line with this menuItemId, 0 when none (findIndex)
RECURSIVE FindIndexFrom(_, _, _)
FindIndexFrom(items, mid, i) ==
  IF i > Len(items) THEN 0
  ELSE IF items[i].menuItemId = mid THEN i
  ELSE FindIndexFrom(items, mid, i + 1)

FindIndex(items, mid) == FindIndexFrom(items, mid, 1)

\* MergeOne with the quantity of a matching line overwritten, not added to
MergeOne_Overwrite(merged, newItem) ==
  LET existingIndex == FindIndex(merged, newItem.menuItemId) IN
  IF existingIndex > 0
  THEN [merged EXCEPT ![existingIndex].quantity = newItem.quantity]
  ELSE Append(merged, newItem)

MergeOne(merged, newItem) ==
  LET existingIndex == FindIndex(merged, newItem.menuItemId) IN
  IF existingIndex > 0
  THEN [merged EXCEPT ![existingIndex].quantity = @ + newItem.quantity]
  ELSE Append(merged, newItem)

RECURSIVE MergeItems(_, _)
MergeItems(existingItems, newItems) ==
  IF newItems = <<>> THEN existingItems
  ELSE MergeItems(MergeOne(existingItems, Head(newItems)), Tail(newItems))

\* ---------------------------------------------------------------- storage
getTable(id) ==
  IF \E t \in Tables : t.id = id
  THEN CHOOSE t \in Tables : t.id = id
  ELSE [id |-> "", vendorId |-> "", tableNumber |-> ""]

getTableByNumber(vendorId, tableNumber) ==
  IF \E t \in Tables : t.vendorId = vendorId /\ t.tableNumber = tableNumber
  THEN CHOOSE t \in Tables : t.vendorId = vendorId /\ t.tableNumber = tableNumber
  ELSE [id |-> "", vendorId |-> "", tableNumber |-> ""]

\* ids of the rows getOrders(vendorId, includeArchived) returns
getOrders(vendorId, includeArchived) ==
  { i \in 1..Len(orders) :
      /\ orders[i].vendorId = vendorId
      /\ (includeArchived \/ ~orders[i].archived) }

SetMax(S) == CHOOSE x \in S : \A y \in S : y <= x

\* getNextOrderNumber over the vendor's orders that are not archived
getNextOrderNumber_NotArchived(vendorId) ==
  LET recentOrders == { i \in 1..Len(orders) : /\ orders[i].vendorId = vendorId
                                               /\ ~orders[i].archived } IN
  IF recentOrders = {} THEN 1
  ELSE SetMax({ orders[i].orderNumber : i \in recentOrders }) + 1

getNextOrderNumber(vendorId) ==
  LET recentOrders == { i \in 1..Len(orders) : orders[i].vendorId = vendorId } IN
  IF recentOrders = {} THEN 1
  ELSE SetMax({ orders[i].orderNumber : i \in recentOrders }) + 1

getBillByOrderId(orderId) == { b \in 1..Len(bills) : bills[b].orderId = orderId }

\* ActiveOrderForTable with only the status new taken as active
ActiveOrderForTable_OnlyNew(vendorId, tableId) ==
  LET matches == { i \in getOrders(vendorId, FALSE) :
                     /\ orders[i].tableId = tableId
                     /\ orders[i].status = "new" } IN
  IF matches = {} THEN 0 ELSE SetMax(matches)

\* the list is ordered by createdAt descending; find returns the first match
ActiveOrderForTable(vendorId, tableId) ==
  LET matches == { i \in getOrders(vendorId, FALSE) :
                     /\ orders[i].tableId = tableId
                     /\ orders[i].status \in ActiveStatuses } IN
  IF matches = {} THEN 0 ELSE SetMax(matches)

broadcastToVendor(vendorId, type, orderId) ==
  sent (+) SetToBag({[vendorId |-> vendorId, type |-> type, orderId |-> orderId]})

InFlight(r) == reqs[r].pc \notin {"idle", "done"}

\* res.status(code).json(...): the handler ends and its locals are dead;
\* response is the answer sent last: the request answered (its number, kind
\* and table reference), the HTTP code, the exit taken and the order returned
Respond(r, kind, code, path, orderId, orderNumber) ==
  /\ reqs' = [reqs EXCEPT ![r] = [NoReq EXCEPT !.pc = "done"]]
  /\ response' = [req |-> r, kind |-> kind, tableRef |-> reqs[r].tableRef,
                  code |-> code, path |-> path,
                  orderId |-> orderId, orderNumber |-> orderNumber]

Finish(r, code, path) == Respond(r, reqs[r].kind, code, path, reqs[r].orderId, 0)

\* the handler goes on to its next await with locals q
Continue(r, q) ==
  /\ reqs' = [reqs EXCEPT ![r] = q]
  /\ UNCHANGED response

\* ------------------------------------------------------------------- Init
Init ==
  /\ orders = <<>>
  /\ bills = <<>>
  /\ reqs = [r \in Slots |-> NoReq]
  /\ nreq = 0
  /\ archiveTimers = [o \in OrderIds |-> 0]
  /\ timers = [h \in Slots |-> NoTimer]
  /\ sent = EmptyBag
  /\ clock = 0
  /\ menu = InitialMenu
  /\ everCompleted = {}
  /\ response = NoResponse
  /\ NoClients

\* a request is received while fewer than MaxConcurrent handlers are running
CanReceive ==
  /\ nreq < MaxRequests
  /\ Cardinality({ r \in Slots : InFlight(r) }) < MaxConcurrent

\* ------------------------------------------------------ POST /api/orders
\* handlers that may still insert an order row
Creating == Cardinality({ r \in Slots : reqs[r].kind = "place" /\
                            reqs[r].pc \in {"getOrders", "getNext", "create"} })

\* String.prototype.trim on the references a request may carry
trim(tableRef) ==
  CASE tableRef = " " -> ""
    [] tableRef = " t1 " -> "t1"
    [] OTHER -> tableRef

\* ResolveTable with the reference tried as a table number of the vendor
\* first and as a table id after that
ResolveTable_NumberFirst(vendorId, tableRef) ==
  IF trim(tableRef) = "" THEN ""
  ELSE LET tableIdOrNumber == trim(tableRef)
           byNumber == getTableByNumber(vendorId, tableIdOrNumber)
           table == IF byNumber.id # "" THEN byNumber
                    ELSE getTable(tableIdOrNumber) IN
       IF table.id = "" THEN "invalid"
       ELSE IF table.vendorId # vendorId THEN "invalid"
       ELSE table.id

\* table resolution of the handler: the id of the table the reference names,
\* "" when there is no reference or a blank one, "invalid" when the request
\* is rejected
ResolveTable(vendorId, tableRef) ==
  IF trim(tableRef) = "" THEN ""
  ELSE LET tableIdOrNumber == trim(tableRef)
           byId == getTable(tableIdOrNumber)
           table == IF byId.id # "" THEN byId
                    ELSE getTableByNumber(vendorId, tableIdOrNumber) IN
       IF table.id = "" THEN "invalid"
       ELSE IF table.vendorId # vendorId THEN "invalid"
       ELSE table.id

\* insertOrderSchema.parse on the body's items: an array (empty or not) of
\* lines whose quantity is a number >= 1; anything else throws
insertOrderSchemaParses(items) ==
  \A k \in 1..Len(items) : items[k].quantity >= 1

\* request received: schema parse and table resolution
PlaceOrder(vendorId, tableRef, items, totalAmount, status, archived) ==
  LET r == nreq + 1
      actualTableId == ResolveTable(vendorId, tableRef)
      req == [NoReq EXCEPT !.kind = "place", !.vendorId = vendorId,
                           !.tableRef = tableRef,
                           !.items = items, !.totalAmount = totalAmount,
                           !.status = status, !.archived = archived] IN
  /\ CanReceive
  /\ nreq' = r
  /\ IF ~insertOrderSchemaParses(items)
     THEN Respond(r, "place", 400, "parseError", 0, 0)
     ELSE IF actualTableId = "invalid"
     THEN /\ reqs' = [reqs EXCEPT ![r] = [NoReq EXCEPT !.pc = "done"]]
          /\ response' = [NoResponse EXCEPT !.req = r, !.kind = "place",
                                            !.tableRef = tableRef,
                                            !.code = 400, !.path = "invalidTable"]
     ELSE /\ \/ Len(orders) + Creating < MaxOrders
             \/ /\ actualTableId # ""
                /\ ActiveOrderForTable(vendorId, actualTableId) # 0
          /\ Continue(r, [req EXCEPT !.tableId = actualTableId,
                                      !.pc = IF actualTableId # "" THEN "getOrders"
                                             ELSE "getNext"])
  /\ UNCHANGED <<menu, everCompleted, orders, bills, archiveTimers, timers, sent, clock>>
  /\ UNCHANGED wsVars

\* await storage.getOrders(vendorId, false) and the find over its result
PlaceGetOrders(r) ==
  LET q == reqs[r]
      active == ActiveOrderForTable(q.vendorId, q.tableId) IN
  /\ q.kind = "place" /\ q.pc = "getOrders"
  /\ Continue(r, IF active # 0
                 THEN [q EXCEPT !.pc = "merge", !.orderId = active,
                                !.snapItems = orders[active].items]
                 ELSE [q EXCEPT !.pc = "getNext"])
  /\ UNCHANGED <<menu, everCompleted, orders, bills, nreq, archiveTimers, timers, sent, clock>>
  /\ UNCHANGED wsVars

\* an items update that saves the whole row of a copy read when the order
\* was new
updateOrderItems_WholeRow(id, items, totalAmount) ==
  [orders EXCEPT ![id].items = items, ![id].totalAmount = totalAmount,
                 ![id].status = "new"]

updateOrderItems(id, items, totalAmount) ==
  [orders EXCEPT ![id].items = items, ![id].totalAmount = totalAmount]

\* the merge announced as a new order
PlaceMerge_BroadcastsNewOrder(r) ==
  LET q == reqs[r]
      mergedItems == MergeItems(q.snapItems, q.items)
      newTotal == SumItems(mergedItems) IN
  /\ q.kind = "place" /\ q.pc = "merge"
  /\ orders' = updateOrderItems(q.orderId, mergedItems, newTotal)
  /\ sent' = broadcastToVendor(q.vendorId, "NEW_ORDER", q.orderId)
  /\ Respond(r, "place", 200, "merged", q.orderId, orders[q.orderId].orderNumber)
  /\ UNCHANGED <<menu, everCompleted, bills, nreq, archiveTimers, timers, clock>>
  /\ UNCHANGED wsVars

\* merge of the request's items into the order read before, then
\* await storage.updateOrderItems(...) and the ORDER_UPDATE broadcast
PlaceMerge(r) ==
  LET q == reqs[r]
      mergedItems == MergeItems(q.snapItems, q.items)
      newTotal == SumItems(mergedItems) IN
  /\ q.kind = "place" /\ q.pc = "merge"
  /\ orders' = updateOrderItems(q.orderId, mergedItems, newTotal)
  /\ sent' = broadcastToVendor(q.vendorId, "ORDER_UPDATE", q.orderId)
  /\ Respond(r, "place", 200, "merged", q.orderId, orders[q.orderId].orderNumber)
  /\ UNCHANGED <<menu, everCompleted, bills, nreq, archiveTimers, timers, clock>>
  /\ UNCHANGED wsVars

\* await storage.getNextOrderNumber(vendorId)
PlaceGetNext(r) ==
  LET q == reqs[r] IN
  /\ q.kind = "place" /\ q.pc = "getNext"
  /\ Len(orders) + Cardinality({ s \in Slots : reqs[s].kind = "place" /\
                                    reqs[s].pc = "create" }) < MaxOrders
  /\ Continue(r, [q EXCEPT !.pc = "create",
                            !.orderNumber = getNextOrderNumber(q.vendorId)])
  /\ UNCHANGED <<menu, everCompleted, orders, bills, nreq, archiveTimers, timers, sent, clock>>
  /\ UNCHANGED wsVars

\* row inserted by createOrder({...orderData, orderNumber})
NewOrderRow(q) ==
  [vendorId |-> q.vendorId, tableId |-> q.tableId, orderNumber |-> q.orderNumber,
   status |-> q.status, items |-> q.items, totalAmount |-> q.totalAmount,
   archived |-> q.archived, completedAt |-> 0]

\* await storage.createOrder(...) and the NEW_ORDER broadcast
PlaceCreate(r) ==
  LET q == reqs[r]
      id == Len(orders) + 1 IN
  /\ q.kind = "place" /\ q.pc = "create"
  /\ orders' = Append(orders, NewOrderRow(q))
  /\ sent' = broadcastToVendor(q.vendorId, "NEW_ORDER", id)
  /\ Respond(r, "place", 200, "created", id, q.orderNumber)
  /\ everCompleted' = IF q.status = "completed" THEN everCompleted \cup {id}
                      ELSE everCompleted
  /\ UNCHANGED <<menu, bills, nreq, archiveTimers, timers, clock>>
  /\ UNCHANGED wsVars

\* ------------------------------------------- PATCH /api/orders/:id/status
\* clearTimeout: a timer that has not fired yet never fires; one whose
\* callback already started is not affected
clearTimeout(h) ==
  IF timers[h].state = "pending" THEN [timers EXCEPT ![h].state = "cleared"]
  ELSE timers

\* request received: status check, then cancel of the order's timer entry
SetStatus(orderId, status) ==
  LET r == nreq + 1
      req == [NoReq EXCEPT !.kind = "status", !.orderId = orderId,
                           !.status = status]
      existingTimer == archiveTimers[orderId] IN
  /\ CanReceive
  /\ nreq' = r
  /\ IF status \notin Statuses
     THEN /\ Respond(r, "status", 400, "invalidStatus", orderId, 0)
          /\ UNCHANGED <<timers, archiveTimers>>
     ELSE /\ Continue(r, [req EXCEPT !.pc = "update",
                                      !.existingTimer = existingTimer])
          /\ IF existingTimer # 0
             THEN /\ timers' = clearTimeout(existingTimer)
                  /\ archiveTimers' = [archiveTimers EXCEPT ![orderId] = 0]
             ELSE UNCHANGED <<timers, archiveTimers>>
  /\ UNCHANGED <<menu, everCompleted, orders, bills, sent, clock>>
  /\ UNCHANGED wsVars

updateOrderStatus(id, status, now) ==
  IF status = "completed"
  THEN [orders EXCEPT ![id].status = status, ![id].completedAt = now]
  ELSE [orders EXCEPT ![id].status = status]

\* setTimeout(..., 60000) and archiveTimers.set(orderId, timer)
ArmTimer(h, orderId, vendorId) ==
  /\ timers' = [timers EXCEPT ![h] = [state |-> "pending", orderId |-> orderId,
                                      vendorId |-> vendorId]]
  /\ archiveTimers' = [archiveTimers EXCEPT ![orderId] = h]

\* await storage.updateOrderStatus(orderId, status); for a status other
\* than completed the handler runs to its end without another await
StatusUpdate(r) ==
  LET q == reqs[r]
      id == q.orderId IN
  /\ q.kind = "status" /\ q.pc = "update"
  /\ IF id > Len(orders)
     THEN /\ Finish(r, 404, "notFound")
          /\ UNCHANGED <<orders, sent, clock, everCompleted>>
     ELSE /\ orders' = updateOrderStatus(id, q.status, clock + 1)
          /\ clock' = IF q.status = "completed" THEN clock + 1 ELSE clock
          /\ everCompleted' = IF q.status = "completed"
                              THEN everCompleted \cup {id} ELSE everCompleted
          /\ IF q.status = "completed"
             THEN /\ Continue(r, [q EXCEPT !.pc = "getBill",
                                            !.vendorId = orders[id].vendorId,
                                            !.snapItems = orders[id].items,
                                            !.snapTotal = orders[id].totalAmount])
                  /\ UNCHANGED sent
             ELSE /\ Finish(r, 200, "updated")
                  /\ sent' = broadcastToVendor(orders[id].vendorId, "ORDER_UPDATE", id)
  /\ UNCHANGED <<menu, bills, nreq, archiveTimers, timers>>
  /\ UNCHANGED wsVars

\* await storage.getBillByOrderId(orderId); when a bill exists the handler
\* broadcasts, arms the timer and responds without another await
StatusGetBill(r) ==
  LET q == reqs[r] IN
  /\ q.kind = "status" /\ q.pc = "getBill"
  /\ IF getBillByOrderId(q.orderId) # {}
     THEN /\ sent' = broadcastToVendor(q.vendorId, "ORDER_UPDATE", q.orderId)
          /\ ArmTimer(r, q.orderId, q.vendorId)
          /\ Finish(r, 200, "billExisted")
     ELSE /\ Continue(r, [q EXCEPT !.pc = "createBill"])
          /\ UNCHANGED <<sent, timers, archiveTimers>>
  /\ UNCHANGED <<menu, everCompleted, orders, bills, nreq, clock>>
  /\ UNCHANGED wsVars

BillItem(item) == [name |-> item.name, price |-> item.price, quantity |-> item.quantity]

\* row the handler passes to createBill, built from the order row that
\* updateOrderStatus returned
NewBillRow(q) ==
  LET tableId == orders[q.orderId].tableId IN
  [orderId |-> q.orderId, vendorId |-> q.vendorId,
   orderNumber |-> orders[q.orderId].orderNumber,
   tableNumber |-> IF tableId # "" THEN getTable(tableId).tableNumber ELSE "",
   items |-> [i \in 1..Len(q.snapItems) |-> BillItem(q.snapItems[i])],
   totalAmount |-> q.snapTotal]

\* a bills table without the UNIQUE constraint on order_id
createBillThrows_NoUnique(orderId) == FALSE

\* bills.order_id is UNIQUE: inserting a second bill for an order throws
createBillThrows(orderId) == getBillByOrderId(orderId) # {}

\* await storage.createBill(...); a throw is caught by the handler's catch
\* (400, nothing broadcast, no timer); otherwise broadcast, arm, respond
StatusCreateBill(r) ==
  LET q == reqs[r] IN
  /\ q.kind = "status" /\ q.pc = "createBill"
  /\ IF createBillThrows(q.orderId)
     THEN /\ Finish(r, 400, "billThrew")
          /\ UNCHANGED <<bills, sent, timers, archiveTimers>>
     ELSE /\ bills' = Append(bills, NewBillRow(q))
          /\ sent' = broadcastToVendor(q.vendorId, "ORDER_UPDATE", q.orderId)
          /\ ArmTimer(r, q.orderId, q.vendorId)
          /\ Finish(r, 200, "billCreated")
  /\ UNCHANGED <<menu, everCompleted, orders, nreq, clock>>
  /\ UNCHANGED wsVars

\* ------------------------------------------------ archival timer callback
\* the timer fires: await storage.getOrder(orderId) and the status check
TimerFire(h) ==
  LET t == timers[h] IN
  /\ t.state = "pending"
  /\ IF orders[t.orderId].status = "completed"
     THEN /\ timers' = [timers EXCEPT ![h].state = "archiving"]
          /\ UNCHANGED archiveTimers
     ELSE /\ timers' = [timers EXCEPT ![h].state = "skipped"]
          /\ archiveTimers' = [archiveTimers EXCEPT ![t.orderId] = 0]
  /\ UNCHANGED <<menu, everCompleted, orders, bills, reqs, response, nreq, sent, clock>>
  /\ UNCHANGED wsVars

archiveOrder(id) == [orders EXCEPT ![id].archived = TRUE]

\* await storage.archiveOrder(orderId), ORDER_ARCHIVED, archiveTimers.delete
TimerArchive(h) ==
  LET t == timers[h] IN
  /\ t.state = "archiving"
  /\ orders' = archiveOrder(t.orderId)
  /\ sent' = broadcastToVendor(t.vendorId, "ORDER_ARCHIVED", t.orderId)
  /\ archiveTimers' = [archiveTimers EXCEPT ![t.orderId] = 0]
  /\ timers' = [timers EXCEPT ![h].state = "archived"]
  /\ UNCHANGED <<menu, everCompleted, bills, reqs, response, nreq, clock>>
  /\ UNCHANGED wsVars

\* -------------------------------------------- PATCH /api/orders/:id/items
\* request received: the body's items must be a non-empty array
UpdateItems(orderId, items) ==
  LET r == nreq + 1
      req == [NoReq EXCEPT !.kind = "items", !.orderId = orderId, !.items = items] IN
  /\ CanReceive
  /\ nreq' = r
  /\ IF Len(items) = 0
     THEN Respond(r, "items", 400, "emptyItems", orderId, 0)
     ELSE Continue(r, [req EXCEPT !.pc = "getOrder"])
  /\ UNCHANGED <<orders, bills, archiveTimers, timers, sent, clock, menu, everCompleted>>
  /\ UNCHANGED wsVars

\* await storage.getOrder(id)
ItemsGetOrder(r) ==
  LET q == reqs[r] IN
  /\ q.kind = "items" /\ q.pc = "getOrder"
  /\ IF q.orderId > Len(orders)
     THEN Finish(r, 404, "notFound")
     ELSE Continue(r, [q EXCEPT !.pc = "getMenuItem", !.idx = 1,
                                !.vendorId = orders[q.orderId].vendorId,
                                !.snapItems = <<>>, !.snapTotal = 0])
  /\ UNCHANGED <<orders, bills, nreq, archiveTimers, timers, sent, clock, menu, everCompleted>>
  /\ UNCHANGED wsVars

\* one round of the validation loop: the item's checks and
\* await storage.getMenuItem(item.menuItemId); snapItems / snapTotal hold
\* validatedItems / totalAmount
\* a menu_items row, and the absence of one
getMenuItem(id) ==
  IF id \in MenuIds THEN menu[id] ELSE [exists |-> FALSE, name |-> "", price |-> 0]

\* validatedItems.push with the name and price the caller sent
ValidatedItem_FromCaller(item, menuItem) ==
  [menuItemId |-> item.menuItemId, name |-> item.name,
   price |-> item.price, quantity |-> item.quantity]

\* validatedItems.push({menuItemId, name, price of the menu item, quantity})
ValidatedItem(item, menuItem) ==
  [menuItemId |-> item.menuItemId, name |-> menuItem.name,
   price |-> menuItem.price, quantity |-> item.quantity]

\* ItemsGetMenuItem with the lines validated so far written to the order when
\* a later line names a menu item that does not exist
ItemsGetMenuItem_WritesValidated(r) ==
  LET q == reqs[r]
      item == q.items[q.idx]
      menuItem == getMenuItem(item.menuItemId)
      validated == Append(q.snapItems, ValidatedItem(item, menuItem)) IN
  /\ q.kind = "items" /\ q.pc = "getMenuItem"
  /\ IF item.menuItemId = "" \/ item.quantity <= 0
     THEN Finish(r, 400, "invalidItem") /\ UNCHANGED orders
     ELSE IF ~menuItem.exists
     THEN /\ Finish(r, 400, "menuItemNotFound")
          /\ orders' = updateOrderItems(q.orderId, q.snapItems, q.snapTotal)
     ELSE /\ Continue(r, [q EXCEPT !.snapItems = validated,
                                   !.snapTotal = @ + menuItem.price * item.quantity,
                                   !.idx = @ + 1,
                                   !.pc = IF q.idx = Len(q.items) THEN "write"
                                          ELSE "getMenuItem"])
          /\ UNCHANGED orders
  /\ UNCHANGED <<bills, nreq, archiveTimers, timers, sent, clock, menu, everCompleted>>
  /\ UNCHANGED wsVars

ItemsGetMenuItem(r) ==
  LET q == reqs[r]
      item == q.items[q.idx]
      menuItem == getMenuItem(item.menuItemId)
      validated == Append(q.snapItems, ValidatedItem(item, menuItem)) IN
  /\ q.kind = "items" /\ q.pc = "getMenuItem"
  /\ IF item.menuItemId = "" \/ item.quantity <= 0
     THEN Finish(r, 400, "invalidItem")
     ELSE IF ~menuItem.exists
     THEN Finish(r, 400, "menuItemNotFound")
     ELSE Continue(r, [q EXCEPT !.snapItems = validated,
                                !.snapTotal = @ + menuItem.price * item.quantity,
                                !.idx = @ + 1,
                                !.pc = IF q.idx = Len(q.items) THEN "write"
                                       ELSE "getMenuItem"])
  /\ UNCHANGED <<orders, bills, nreq, archiveTimers, timers, sent, clock, menu, everCompleted>>
  /\ UNCHANGED wsVars

\* await storage.updateOrderItems(id, validatedItems, total), ORDER_UPDATE
ItemsWrite(r) ==
  LET q == reqs[r] IN
  /\ q.kind = "items" /\ q.pc = "write"
  /\ orders' = updateOrderItems(q.orderId, q.snapItems, q.snapTotal)
  /\ sent' = broadcastToVendor(q.vendorId, "ORDER_UPDATE", q.orderId)
  /\ Finish(r, 200, "itemsUpdated")
  /\ UNCHANGED <<bills, nreq, archiveTimers, timers, clock, menu, everCompleted>>
  /\ UNCHANGED wsVars

\* ------------------------------------- PATCH and DELETE /api/menu/:id
\* request received and await storage.getMenuItem(id): 404 without a row.
\* The owner check that follows reads the vendors table only; menu items
\* belong to owner accounts (POST /api/menu refuses waiters), so it passes.
UpdateMenuItem(id, name, price) ==
  LET r == nreq + 1
      req == [NoReq EXCEPT !.kind = "menuPatch", !.menuItemId = id,
                           !.menuName = name, !.menuPrice = price] IN
  /\ CanReceive
  /\ nreq' = r
  /\ IF ~getMenuItem(id).exists
     THEN Respond(r, "menuPatch", 404, "menuItemNotFound", 0, 0)
     ELSE Continue(r, [req EXCEPT !.pc = "menuWrite"])
  /\ UNCHANGED <<orders, bills, archiveTimers, timers, sent, clock, menu, everCompleted>>
  /\ UNCHANGED wsVars

DeleteMenuItem(id) ==
  LET r == nreq + 1
      req == [NoReq EXCEPT !.kind = "menuDelete", !.menuItemId = id] IN
  /\ CanReceive
  /\ nreq' = r
  /\ IF ~getMenuItem(id).exists
     THEN Respond(r, "menuDelete", 404, "menuItemNotFound", 0, 0)
     ELSE Continue(r, [req EXCEPT !.pc = "menuWrite"])
  /\ UNCHANGED <<orders, bills, archiveTimers, timers, sent, clock, menu, everCompleted>>
  /\ UNCHANGED wsVars

updateMenuItem(id, name, price) ==
  [menu EXCEPT ![id].name = name, ![id].price = price]

deleteMenuItem(id) ==
  [menu EXCEPT ![id] = [exists |-> FALSE, name |-> "", price |-> 0]]

\* await storage.updateMenuItem(id, body) (no row updated: 404) or
\* await storage.deleteMenuItem(id)
MenuWrite(r) ==
  LET q == reqs[r] IN
  /\ q.kind \in {"menuPatch", "menuDelete"} /\ q.pc = "menuWrite"
  /\ IF q.kind = "menuDelete"
     THEN /\ menu' = deleteMenuItem(q.menuItemId)
          /\ Respond(r, q.kind, 200, "menuDeleted", 0, 0)
     ELSE IF ~menu[q.menuItemId].exists
     THEN /\ UNCHANGED menu
          /\ Respond(r, q.kind, 404, "menuItemNotFound", 0, 0)
     ELSE /\ menu' = updateMenuItem(q.menuItemId, q.menuName, q.menuPrice)
          /\ Respond(r, q.kind, 200, "menuUpdated", 0, 0)
  /\ UNCHANGED <<orders, bills, nreq, archiveTimers, timers, sent, clock, everCompleted>>
  /\ UNCHANGED wsVars

\* ---------------------------------------------------------- storage errors
\* the storage call a handler is awaiting rejects (the database is
\* unreachable, a statement fails): the handler's catch answers 400 and the
\* handler ends; what it did before that await stays done
StorageError(r) ==
  /\ InFlight(r)
  /\ Finish(r, 400, "storageError")
  /\ UNCHANGED <<orders, bills, nreq, archiveTimers, timers, sent, clock, menu, everCompleted>>
  /\ UNCHANGED wsVars

\* the storage call of a timer callback rejects: its catch logs the error and
\* deletes the order's archiveTimers entry
TimerStorageError(h) ==
  LET t == timers[h] IN
  /\ t.state \in {"pending", "archiving"}
  /\ timers' = [timers EXCEPT ![h].state = "failed"]
  /\ archiveTimers' = [archiveTimers EXCEPT ![t.orderId] = 0]
  /\ UNCHANGED <<orders, bills, reqs, response, nreq, sent, clock, menu, everCompleted>>
  /\ UNCHANGED wsVars

\* ------------------------------------------------------------------- Next
Receive ==
  \/ \E vendorId \in Vendors, tableRef \in TableRefs, body \in OrderBodies,
        status \in BodyStatuses, archived \in BodyArchived :
       PlaceOrder(vendorId, tableRef, body.items, body.totalAmount, status, archived)
  \/ \E orderId \in OrderIds, status \in StatusInputs : SetStatus(orderId, status)
  \/ \E orderId \in OrderIds, items \in EditItems : UpdateItems(orderId, items)

Step ==
  \/ \E r \in Slots : PlaceGetOrders(r)
  \/ \E r \in Slots : PlaceMerge(r)
  \/ \E r \in Slots : PlaceGetNext(r)
  \/ \E r \in Slots : PlaceCreate(r)
  \/ \E r \in Slots : StatusUpdate(r)
  \/ \E r \in Slots : StatusGetBill(r)
  \/ \E r \in Slots : StatusCreateBill(r)
  \/ \E r \in Slots : ItemsGetOrder(r)
  \/ \E r \in Slots : ItemsGetMenuItem(r)
  \/ \E r \in Slots : ItemsWrite(r)
  \/ \E h \in Slots : TimerFire(h)
  \/ \E h \in Slots : TimerArchive(h)
  \/ \E r \in Slots : StorageError(r)
  \/ \E h \in Slots : TimerStorageError(h)

Next == Receive \/ Step

Spec == Init /\ [][Next]_vars

\* ------------------------------------------------- sequential executions
\* a handler or a timer callback is between two of its awaits
Busy ==
  \/ \E r \in Slots : InFlight(r)
  \/ \E h \in Slots : timers[h].state = "archiving"

\* every handler and every timer callback runs from its start to its end
\* before the next one starts
SeqNext ==
  \/ ~Busy /\ Receive
  \/ ~Busy /\ \E h \in Slots : TimerFire(h)
  \/ \E r \in Slots : PlaceGetOrders(r)
  \/ \E r \in Slots : PlaceMerge(r)
  \/ \E r \in Slots : PlaceGetNext(r)
  \/ \E r \in Slots : PlaceCreate(r)
  \/ \E r \in Slots : StatusUpdate(r)
  \/ \E r \in Slots : StatusGetBill(r)
  \/ \E r \in Slots : StatusCreateBill(r)
  \/ \E r \in Slots : ItemsGetOrder(r)
  \/ \E r \in Slots : ItemsGetMenuItem(r)
  \/ \E r \in Slots : ItemsWrite(r)
  \/ \E h \in Slots : TimerArchive(h)
  \/ \E r \in Slots : StorageError(r)
  \/ \E h \in Slots : timers[h].state = "archiving" /\ TimerStorageError(h)
  \/ ~Busy /\ \E h \in Slots : TimerStorageError(h)

SeqSpec == Init /\ [][SeqNext]_vars

\* ------------------------------- POST /api/orders over table references
\* references with surrounding blanks and a blank one besides TableRefs
WideTableRefs == TableRefs \cup {" ", " t1 "}

\* one request at a time: the tables do not change, so the resolution of a
\* reference does not depend on what other handlers are doing
TableNext ==
  \/ ~Busy /\ \E vendorId \in Vendors, tableRef \in WideTableRefs :
       PlaceOrder(vendorId, tableRef, <<Tea1>>, 200, "new", FALSE)
  \/ \E r \in Slots : PlaceGetOrders(r)
  \/ \E r \in Slots : PlaceMerge(r)
  \/ \E r \in Slots : PlaceGetNext(r)
  \/ \E r \in Slots : PlaceCreate(r)
  \/ \E r \in Slots : StorageError(r)

TableSpec == Init /\ [][TableNext]_vars

\* ----------------------------------------------- POST /api/orders alone
\* bodies of POST /api/orders over what the schema lets through and what it
\* rejects: no line at all, a line with quantity 0, archived of either value
Tea0 == [menuItemId |-> "m1", name |-> "Tea", price |-> 200, quantity |-> 0]

PlaceBodies ==
  { [items |-> <<Tea1>>, totalAmount |-> 200],
    [items |-> <<>>, totalAmount |-> 0],
    [items |-> <<Tea0>>, totalAmount |-> 0] }

\* the requests are those of one vendor's customers, with or without a table
PlaceTableRefs == {"", "t1"}

PlaceNext ==
  \/ \E tableRef \in PlaceTableRefs, body \in PlaceBodies,
        status \in BodyStatuses, archived \in BOOLEAN :
       PlaceOrder("v1", tableRef, body.items, body.totalAmount, status, archived)
  \/ \E r \in Slots : PlaceGetOrders(r)
  \/ \E r \in Slots : PlaceMerge(r)
  \/ \E r \in Slots : PlaceGetNext(r)
  \/ \E r \in Slots : PlaceCreate(r)
  \/ \E r \in Slots : StorageError(r)

PlaceSpec == Init /\ [][PlaceNext]_vars

\* ------------------------------ item edits and menu edits on one order
\* item lists of PATCH .../items: no line; one line; two lines of menu items
\* that exist at start; a line after which a menu item that never existed is
\* named; a valid line followed by a line with quantity 0; a line without
\* menuItemId
ItemsBodies ==
  { <<>>,
    <<EditLine("m1", 3)>>,
    <<EditLine("m1", 1), EditLine("m2", 2)>>,
    <<EditLine("m2", 1), EditLine("m9", 1)>>,
    <<EditLine("m1", 2), EditLine("m2", 0)>>,
    <<EditLine("", 1)>> }

\* the state after one POST /api/orders of a customer at table t1 of v1
ItemsInit ==
  /\ orders = << [vendorId |-> "v1", tableId |-> "t1", orderNumber |-> 1,
                  status |-> "new", items |-> <<Tea1>>, totalAmount |-> 200,
                  archived |-> FALSE, completedAt |-> 0] >>
  /\ bills = <<>>
  /\ reqs = [r \in Slots |-> IF r = 1 THEN [NoReq EXCEPT !.pc = "done"] ELSE NoReq]
  /\ nreq = 1
  /\ archiveTimers = [o \in OrderIds |-> 0]
  /\ timers = [h \in Slots |-> NoTimer]
  /\ sent = SetToBag({[vendorId |-> "v1", type |-> "NEW_ORDER", orderId |-> 1]})
  /\ clock = 0
  /\ menu = InitialMenu
  /\ everCompleted = {}
  /\ response = [req |-> 1, kind |-> "place", tableRef |-> "t1", code |-> 200,
                 path |-> "created", orderId |-> 1, orderNumber |-> 1]
  /\ NoClients

ItemsReceive ==
  \/ \E orderId \in OrderIds, items \in ItemsBodies : UpdateItems(orderId, items)
  \/ \E id \in {"m1", "m2"} : UpdateMenuItem(id, "Chai", 250)
  \/ \E id \in {"m1", "m2"} : DeleteMenuItem(id)

ItemsNext ==
  \/ ItemsReceive
  \/ \E r \in Slots : ItemsGetOrder(r)
  \/ \E r \in Slots : ItemsGetMenuItem(r)
  \/ \E r \in Slots : ItemsWrite(r)
  \/ \E r \in Slots : MenuWrite(r)
  \/ \E r \in Slots : StorageError(r)

ItemsSpec == ItemsInit /\ [][ItemsNext]_vars

\* the same with every handler run to its end before the next one starts
SeqItemsNext ==
  \/ ~Busy /\ ItemsReceive
  \/ \E r \in Slots : ItemsGetOrder(r)
  \/ \E r \in Slots : ItemsGetMenuItem(r)
  \/ \E r \in Slots : ItemsWrite(r)
  \/ \E r \in Slots : MenuWrite(r)
  \/ \E r \in Slots : StorageError(r)

SeqItemsSpec == ItemsInit /\ [][SeqItemsNext]_vars

\* --------------------- PATCH status and PATCH items of one existing order
PairNext ==
  \/ \E status \in Statuses : SetStatus(1, status)
  \/ \E items \in EditItems : UpdateItems(1, items)
  \/ \E r \in Slots : StatusUpdate(r)
  \/ \E r \in Slots : StatusGetBill(r)
  \/ \E r \in Slots : StatusCreateBill(r)
  \/ \E r \in Slots : ItemsGetOrder(r)
  \/ \E r \in Slots : ItemsGetMenuItem(r)
  \/ \E r \in Slots : ItemsWrite(r)
  \/ \E h \in Slots : TimerFire(h)
  \/ \E h \in Slots : TimerArchive(h)
  \/ \E r \in Slots : StorageError(r)

PairSpec == ItemsInit /\ [][PairNext]_vars

\* ------------------------------------------------------------ merge alone
MaxLines == 2
MaxQty == 2
MergeIds == {"m1", "m2", "m3"}

\* lines an order may hold and lines a body may carry: a body's line for a
\* menu item need not agree in name and price with the order's line
StoredLines ==
  { [menuItemId |-> m, name |-> "stored", price |-> 100, quantity |-> q] :
      m \in MergeIds, q \in 1..MaxQty }
BodyLines ==
  { [menuItemId |-> m, name |-> "body", price |-> 100 + 10 * q, quantity |-> q] :
      m \in MergeIds, q \in 1..MaxQty }

SeqsUpTo(S, n) == UNION { [1..k -> S] : k \in 0..n }

\* a POST /api/orders for table t1 has found order 1 of that table active and
\* is about to merge its items into it
MergeInit ==
  \E e \in SeqsUpTo(StoredLines, MaxLines), n \in SeqsUpTo(BodyLines, MaxLines) :
    /\ orders = << [vendorId |-> "v1", tableId |-> "t1", orderNumber |-> 1,
                    status |-> "new", items |-> e, totalAmount |-> SumItems(e),
                    archived |-> FALSE, completedAt |-> 0] >>
    /\ bills = <<>>
    /\ nreq = 2
    /\ reqs = [r \in Slots |->
                 IF r = 1 THEN [NoReq EXCEPT !.pc = "done"]
                 ELSE IF r = 2
                 THEN [NoReq EXCEPT !.kind = "place", !.pc = "merge",
                                    !.vendorId = "v1", !.tableRef = "t1",
                                    !.tableId = "t1", !.items = n,
                                    !.totalAmount = SumItems(n), !.status = "new",
                                    !.orderId = 1, !.snapItems = e]
                 ELSE NoReq]
    /\ archiveTimers = [o \in OrderIds |-> 0]
    /\ timers = [h \in Slots |-> NoTimer]
    /\ sent = SetToBag({[vendorId |-> "v1", type |-> "NEW_ORDER", orderId |-> 1]})
    /\ clock = 0
    /\ menu = InitialMenu
    /\ everCompleted = {}
    /\ response = [req |-> 1, kind |-> "place", tableRef |-> "t1", code |-> 200,
                   path |-> "created", orderId |-> 1, orderNumber |-> 1]
    /\ NoClients

MergeNext == PlaceMerge(2)

MergeSpec == MergeInit /\ [][MergeNext]_vars

\* ------------------------------------------------- WebSocket connections
\* a message as the clients see it
Message(type, orderId) == [type |-> type, orderId |-> orderId]

MessageTypes == {"NEW_ORDER", "ORDER_UPDATE", "ORDER_ARCHIVED"}

\* the vendorId query parameter of a connection's URL; "" when it has none
UrlVendorIds == Vendors \cup {""}

\* connections.indexOf(ws) and connections.splice(index, 1)
RECURSIVE indexOf(_, _, _)
indexOf(connections, ws, from) ==
  IF from > Len(connections) THEN 0
  ELSE IF connections[from] = ws THEN from
  ELSE indexOf(connections, ws, from + 1)

splice(connections, index) ==
  SubSeq(connections, 1, index - 1) \o SubSeq(connections, index + 1, Len(connections))

\* the send with no test of the connection's readyState
send_IgnoringReadyState(ws, data, box) ==
  [box EXCEPT ![ws] = Append(@, data)]

\* body of the forEach: if (ws.readyState === WebSocket.OPEN) ws.send(data)
send(ws, data, box) ==
  IF sockets[ws].readyState = "OPEN"
  THEN [box EXCEPT ![ws] = Append(@, data)]
  ELSE box

\* connections.forEach(...) over the vendor's list, in list order
RECURSIVE forEachSend(_, _, _)
forEachSend(connections, data, box) ==
  IF connections = <<>> THEN box
  ELSE forEachSend(Tail(connections), data, send(Head(connections), data, box))

\* wss.on('connection'): connection c is new and open; it is pushed on the
\* list of the vendorId of its URL, when the URL has one
Connect(c, vendorId) ==
  /\ sockets[c].readyState = "NONE"
  /\ \A d \in Conns : d < c => sockets[d].readyState # "NONE"
  /\ sockets' = [sockets EXCEPT ![c] = [vendorId |-> vendorId, readyState |-> "OPEN"]]
  /\ vendorConnections' =
       IF vendorId # ""
       THEN [vendorConnections EXCEPT ![vendorId] = Append(@, c)]
       ELSE vendorConnections
  /\ UNCHANGED <<inbox, sent>>
  /\ UNCHANGED <<orders, bills, reqs, nreq, archiveTimers, timers, clock, menu,
                 response, everCompleted>>

\* either side starts the closing handshake: the connection is no longer
\* OPEN, its 'close' event has not been emitted yet
BeginClose(c) ==
  /\ sockets[c].readyState = "OPEN"
  /\ sockets' = [sockets EXCEPT ![c].readyState = "CLOSING"]
  /\ UNCHANGED <<vendorConnections, inbox, sent>>
  /\ UNCHANGED <<orders, bills, reqs, nreq, archiveTimers, timers, clock, menu,
                 response, everCompleted>>

\* ws.on('close'): the connection is closed; the handler, registered only
\* for a connection with a vendorId, removes it from that vendor's list
CloseEvent(c) ==
  LET vendorId == sockets[c].vendorId
      connections == vendorConnections[vendorId]
      index == indexOf(connections, c, 1) IN
  /\ sockets[c].readyState \in {"OPEN", "CLOSING"}
  /\ sockets' = [sockets EXCEPT ![c].readyState = "CLOSED"]
  /\ vendorConnections' =
       IF vendorId # "" /\ index > 0
       THEN [vendorConnections EXCEPT ![vendorId] = splice(connections, index)]
       ELSE vendorConnections
  /\ UNCHANGED <<inbox, sent>>
  /\ UNCHANGED <<orders, bills, reqs, nreq, archiveTimers, timers, clock, menu,
                 response, everCompleted>>

\* a call of broadcastToVendor while clients are connected
Broadcast(vendorId, type, orderId) ==
  /\ BagCardinality(sent) < MaxBroadcasts
  /\ sent' = broadcastToVendor(vendorId, type, orderId)
  /\ inbox' = forEachSend(vendorConnections[vendorId], Message(type, orderId), inbox)
  /\ UNCHANGED <<vendorConnections, sockets>>
  /\ UNCHANGED <<orders, bills, reqs, nreq, archiveTimers, timers, clock, menu,
                 response, everCompleted>>

\* the broadcasts made: a new order of one vendor, an update of the other's
Broadcasts ==
  { [vendorId |-> "v1", type |-> "NEW_ORDER"],
    [vendorId |-> "v2", type |-> "ORDER_UPDATE"] }

WsNext ==
  \/ \E c \in Conns, vendorId \in UrlVendorIds : Connect(c, vendorId)
  \/ \E c \in Conns : BeginClose(c)
  \/ \E c \in Conns : CloseEvent(c)
  \/ \E b \in Broadcasts : Broadcast(b.vendorId, b.type, 1)

WsSpec == Init /\ [][WsNext]_vars

\* ============================================================== properties
OrderExists(i) == i \in 1..Len(orders)

IsActive(i) == orders[i].status \in {"new", "preparing", "ready"} /\ ~orders[i].archived

\* C1: no two orders of one vendor carry the same orderNumber, and an order
\* created later carries a greater number than every order of the vendor
\* created before it.
C1_OrderNumbersIncreaseWithoutDuplicates ==
  \A i, j \in 1..Len(orders) :
    (i < j /\ orders[i].vendorId = orders[j].vendorId)
      => orders[i].orderNumber < orders[j].orderNumber

\* C2: at most one order with status new, preparing or ready and archived
\* = false exists per vendor and table.
C2_OneActiveOrderPerTable ==
  \A i, j \in 1..Len(orders) :
    ( /\ i # j
      /\ orders[i].vendorId = orders[j].vendorId
      /\ orders[i].tableId # ""
      /\ orders[i].tableId = orders[j].tableId
      /\ IsActive(i) )
      => ~IsActive(j)

\* C3: the stored totalAmount of every order equals the sum of price times
\* quantity over its stored items.
C3_TotalIsSumOfItems ==
  \A i \in 1..Len(orders) : orders[i].totalAmount = SumItems(orders[i].items)

\* C4: an order whose stored status is completed keeps that status in every
\* step.
C4_CompletedIsTerminal ==
  [][\A i \in 1..Len(orders) :
       orders[i].status = "completed" => orders'[i].status = "completed"]_vars

\* a PATCH .../status handler for the order is between its status write and
\* its bill step
BillStepRunning(i) ==
  \E r \in Slots : /\ reqs[r].kind = "status"
                   /\ reqs[r].orderId = i
                   /\ reqs[r].pc \in {"getBill", "createBill"}

\* C5: every order whose stored status was ever completed has exactly one
\* bill, once no status handler for it is still on its way to the bill step.
C5_ExactlyOneBillPerCompletedOrder ==
  \A i \in everCompleted :
    ~BillStepRunning(i) => Cardinality(getBillByOrderId(i)) = 1

\* a PATCH .../status handler for the order has cancelled the order's timer
\* and has yet to write the status and, for completed, to arm a new timer
StatusHandlerRunning(i) ==
  \E r \in Slots : reqs[r].kind = "status" /\ reqs[r].orderId = i /\ InFlight(r)

\* the archival of the order is under way: a timer for it is pending, its
\* callback is running, or a status handler for it is still running
ArchivalUnderWay(i) ==
  \/ \E h \in Slots : /\ timers[h].orderId = i
                      /\ timers[h].state \in {"pending", "archiving"}
  \/ StatusHandlerRunning(i)

\* C6: every order whose stored status is completed is archived or has its
\* archival under way, so that it is archived once the pending timers fire.
C6_CompletedOrderGetsArchived ==
  \A i \in 1..Len(orders) :
    orders[i].status = "completed" => (orders[i].archived \/ ArchivalUnderWay(i))

\* C7: whenever a step sets an order's archived flag, the order's stored
\* status is completed at that write.
C7_ArchiveOnlyWhenCompleted ==
  [][\A i \in 1..Len(orders) :
       (~orders[i].archived /\ orders'[i].archived)
         => orders'[i].status = "completed"]_vars

\* the table has an order with status new, preparing or ready, not archived
TableHasActive(vendorId, tableId) ==
  /\ tableId # ""
  /\ \E i \in 1..Len(orders) : /\ orders[i].vendorId = vendorId
                               /\ orders[i].tableId = tableId
                               /\ IsActive(i)

\* C8: in a sequential execution, a POST /api/orders for a table that has an
\* active order (named by id or by table number) inserts no order and asks
\* for no order number, and the order it returns is an active order of that
\* table, with that order's orderNumber.
C8_MergeCreatesNoOrder ==
  [][\A r \in Slots :
       ( /\ reqs[r].kind = "place"
         /\ InFlight(r)
         /\ TableHasActive(reqs[r].vendorId, reqs[r].tableId) )
       => /\ Len(orders') = Len(orders)
          /\ reqs'[r].pc \notin {"getNext", "create"}
          /\ (reqs'[r].pc = "done" /\ response'.code = 200)
               => LET i == response'.orderId IN
                  /\ OrderExists(i)
                  /\ orders[i].vendorId = reqs[r].vendorId
                  /\ orders[i].tableId = reqs[r].tableId
                  /\ IsActive(i)
                  /\ response'.orderNumber = orders[i].orderNumber
                  /\ orders'[i].orderNumber = orders[i].orderNumber]_vars

\* a merge was answered for a request that named the table by its number
C8_Witness ==
  /\ response.kind = "place"
  /\ response.path = "merged"
  /\ response.tableRef = "7"
  /\ Len(orders) = 1
  /\ response.orderNumber = orders[1].orderNumber

RECURSIVE QtySum(_, _)
QtySum(items, mid) ==
  IF items = <<>> THEN 0
  ELSE (IF items[1].menuItemId = mid THEN items[1].quantity ELSE 0)
       + QtySum(Tail(items), mid)

IdsOf(items) == { items[k].menuItemId : k \in 1..Len(items) }

\* position in items of the first line for the menu item
FirstLine(items, mid) ==
  CHOOSE j \in 1..Len(items) :
    /\ items[j].menuItemId = mid
    /\ \A j2 \in 1..(j - 1) : items[j2].menuItemId # mid

\* m is existing with the lines of incoming merged in: the existing lines
\* keep position, menu item, name and price; the lines after them are the
\* menu items new to the order, in the order of their first line in incoming
\* and with that line's name and price; every quantity is the sum
IsMergeOf(m, existing, incoming) ==
  /\ Len(m) >= Len(existing)
  /\ \A k \in 1..Len(existing) :
       /\ m[k].menuItemId = existing[k].menuItemId
       /\ m[k].name = existing[k].name
       /\ m[k].price = existing[k].price
  /\ \A k \in (Len(existing) + 1)..Len(m) :
       /\ m[k].menuItemId \in IdsOf(incoming) \ IdsOf(existing)
       /\ m[k].name = incoming[FirstLine(incoming, m[k].menuItemId)].name
       /\ m[k].price = incoming[FirstLine(incoming, m[k].menuItemId)].price
       /\ \A k2 \in (Len(existing) + 1)..(k - 1) :
            FirstLine(incoming, m[k2].menuItemId) < FirstLine(incoming, m[k].menuItemId)
  /\ \A mid \in IdsOf(existing) \cup IdsOf(incoming) \cup IdsOf(m) :
       QtySum(m, mid) = QtySum(existing, mid) + QtySum(incoming, mid)

\* C9: the items a merge stores are the existing items with the incoming
\* items merged in, in order: quantities added on a matching line, other
\* lines appended, no existing line removed.
C9_MergedItems ==
  [][\A r \in Slots :
       (reqs[r].kind = "place" /\ reqs[r].pc = "merge" /\ reqs'[r].pc = "done"
          /\ response'.path = "merged")
       => IsMergeOf(orders'[reqs[r].orderId].items, reqs[r].snapItems, reqs[r].items)]_vars

\* a merge has added to a stored line and appended a line
C9_Witness ==
  /\ response.path = "merged"
  /\ Len(orders[1].items) = 2
  /\ orders[1].items[1].quantity = 3
  /\ orders[1].items[1].name = "stored"
  /\ orders[1].items[2].name = "body"

\* every order of the table is completed, and there is one
TableAllCompleted(vendorId, tableId) ==
  LET onTable == { i \in 1..Len(orders) : /\ orders[i].vendorId = vendorId
                                          /\ orders[i].tableId = tableId } IN
  /\ tableId # ""
  /\ onTable # {}
  /\ \A i \in onTable : orders[i].status = "completed"

\* C10: a POST /api/orders for a table all of whose orders are completed does
\* not merge; the order it inserts has status new and an orderNumber no order
\* of the vendor carries, and no stored order's items or total change.
C10_NewOrderAfterCompleted ==
  [][\A r \in Slots :
       ( /\ reqs[r].kind = "place"
         /\ InFlight(r)
         /\ TableAllCompleted(reqs[r].vendorId, reqs[r].tableId) )
       => /\ reqs'[r].pc # "merge"
          /\ \A i \in 1..Len(orders) :
               /\ orders'[i].items = orders[i].items
               /\ orders'[i].totalAmount = orders[i].totalAmount
          /\ (reqs'[r].pc = "done" /\ response'.code = 200)
               => /\ Len(orders') = Len(orders) + 1
                  /\ orders'[Len(orders')].status = "new"
                  /\ \A i \in 1..Len(orders) :
                       orders[i].vendorId = reqs[r].vendorId
                         => orders[i].orderNumber # orders'[Len(orders')].orderNumber]_vars

\* the status after s in the chain new, preparing, ready, completed
Successor(s) ==
  CASE s = "new" -> "preparing"
    [] s = "preparing" -> "ready"
    [] s = "ready" -> "completed"
    [] OTHER -> "none"

\* C11: every step that changes an order's stored status moves it to the
\* successor of its status in the chain new, preparing, ready, completed; a
\* PATCH .../status request whose status is not that successor writes nothing
\* and is not answered as a success.
C11_StatusMovesToSuccessor ==
  [][/\ \A i \in 1..Len(orders) :
          orders'[i].status # orders[i].status
            => orders'[i].status = Successor(orders[i].status)
     /\ \A r \in Slots :
          ( /\ reqs[r].kind = "status" /\ reqs[r].pc = "update"
            /\ reqs'[r].pc # "update"
            /\ OrderExists(reqs[r].orderId)
            /\ reqs[r].status # Successor(orders[reqs[r].orderId].status) )
          => /\ orders' = orders
             /\ reqs'[r].pc = "done"
             /\ response'.code # 200]_vars

\* timers of the order that are set and have neither fired nor been cleared
PendingTimers(i) ==
  { h \in Slots : timers[h].state = "pending" /\ timers[h].orderId = i }

\* C12: at most one archival timer is pending per order.
C12_OnePendingTimerPerOrder ==
  \A i \in OrderIds : Cardinality(PendingTimers(i)) <= 1

\* C13: every stored order has at least one line in its items (a POST
\* /api/orders without a line stores nothing).
C13_StoredItemsNonEmpty ==
  \A i \in 1..Len(orders) : orders[i].items # <<>>

\* C19: every order row a step inserts has status new and archived = false.
C19_CreatedAsNewNotArchived ==
  [][Len(orders') > Len(orders)
       => /\ orders'[Len(orders')].status = "new"
          /\ ~orders'[Len(orders')].archived]_vars

\* C16: no step changes the status, items, totalAmount or completedAt of an
\* order whose archived flag is set.
C16_ArchivedIsTerminal ==
  [][\A i \in 1..Len(orders) :
       orders[i].archived
         => /\ orders'[i].status = orders[i].status
            /\ orders'[i].items = orders[i].items
            /\ orders'[i].totalAmount = orders[i].totalAmount
            /\ orders'[i].completedAt = orders[i].completedAt]_vars

\* C17: a step sets an order's completedAt only when it leaves the stored
\* status completed, a setStatus step that moves the status to completed sets
\* it, and once set it never changes.
C17_CompletedAtSetOnce ==
  [][\A i \in 1..Len(orders) :
       /\ (orders[i].completedAt = 0 /\ orders'[i].completedAt # 0)
            => orders'[i].status = "completed"
       /\ (orders[i].status # "completed" /\ orders'[i].status = "completed")
            => orders'[i].completedAt # 0
       /\ orders[i].completedAt # 0
            => orders'[i].completedAt = orders[i].completedAt]_vars

\* the status handler has written its status to an existing order by the
\* end of this step, which ends the handler
StatusPersistedAtEnd(r) ==
  /\ reqs[r].kind = "status"
  /\ InFlight(r)
  /\ reqs'[r].pc = "done"
  /\ OrderExists(reqs[r].orderId)
  /\ \/ reqs[r].pc \in {"getBill", "createBill"}
     \/ reqs[r].pc = "update" /\ response'.code = 200

\* C18: a status handler that has written its status broadcasts ORDER_UPDATE
\* for the order to the order's vendor once, in the step that ends it, and
\* in no step before.
C18_StatusChangeBroadcastsOnce ==
  [][\A r \in Slots :
       /\ StatusPersistedAtEnd(r)
            => sent' = broadcastToVendor(orders[reqs[r].orderId].vendorId,
                                         "ORDER_UPDATE", reqs[r].orderId)
       /\ (reqs[r].kind = "status" /\ reqs'[r] # reqs[r] /\ reqs'[r].pc # "done")
            => sent' = sent]_vars

\* the orders of the vendor, archived and completed ones included
OrdersOfVendor(vendorId) ==
  { i \in 1..Len(orders) : orders[i].vendorId = vendorId }

StepOfUnfinishedOrFailedItemsCall ==
  \/ \E r \in Slots : /\ reqs[r].kind = "items"
                      /\ reqs'[r] # reqs[r]
                      /\ ~(reqs'[r].pc = "done" /\ response'.code = 200)
  \/ /\ nreq' = nreq + 1
     /\ \/ reqs'[nreq'].kind = "items"
        \/ response'.kind = "items" /\ response'.req = nreq'

\* C14: no step of a PATCH .../items call changes a stored order or
\* broadcasts anything, except the step that ends it with a success; so a
\* call that fails, at whichever line and for whichever reason, leaves the
\* order's items and totalAmount as they were and broadcasts no ORDER_UPDATE.
C14_FailedUpdateItemsChangesNothing ==
  [][StepOfUnfinishedOrFailedItemsCall => (orders' = orders /\ sent' = sent)]_vars

\* a call was refused for naming a menu item that does not exist after a
\* line naming one that does, and the order is as it was created
C14_Witness ==
  /\ response.kind = "items"
  /\ response.code = 400
  /\ response.path = "menuItemNotFound"
  /\ response.orderId = 1
  /\ menu["m1"].exists /\ menu["m2"].exists
  /\ orders[1].items = <<Tea1>>
  /\ orders[1].totalAmount = 200
  /\ \A m \in BagToSet(sent) : m.type # "ORDER_UPDATE"

NamedTables(vendorId, ref) ==
  LET byId == {t \in Tables : t.id = ref}
      byNumber == {t \in Tables : t.vendorId = vendorId /\ t.tableNumber = ref} IN
  IF byId # {} THEN byId ELSE byNumber

NamesNoTableOfVendor(vendorId, ref) ==
  \/ NamedTables(vendorId, ref) = {}
  \/ \E t \in NamedTables(vendorId, ref) : t.vendorId # vendorId

PlaceRejectedAsInvalidTable ==
  /\ response'.code = 400
  /\ response'.path = "invalidTable"
  /\ response'.req = nreq'
  /\ reqs'[nreq'].pc = "done"
  /\ orders' = orders
  /\ sent' = sent

\* C21 as stated: a placeOrder whose tableRef is not the empty string and
\* that names, as written, no table by id and no table of the vendor by
\* number, or a table of another vendor, is answered 400 and changes no
\* order, allocates no number and broadcasts nothing.
C21_NonEmptyRefRejected ==
  [][\A vendorId \in Vendors, tableRef \in WideTableRefs :
       ( /\ PlaceOrder(vendorId, tableRef, <<Tea1>>, 200, "new", FALSE)
         /\ tableRef # ""
         /\ NamesNoTableOfVendor(vendorId, tableRef) )
       => PlaceRejectedAsInvalidTable]_vars

\* C21 amended: the reference is taken with surrounding white space removed.
\* A placeOrder whose trimmed tableRef is not empty and names no table by id
\* and no table of the vendor by number, or names a table of another vendor,
\* is answered 400 InvalidTable, the handler ends there, no order changes and
\* nothing is broadcast; every other trimmed non-empty reference goes on with
\* the table found by id first and by the vendor's table number only when no
\* table has that id.
C21_InvalidTableRejected ==
  [][\A vendorId \in Vendors, tableRef \in WideTableRefs :
       PlaceOrder(vendorId, tableRef, <<Tea1>>, 200, "new", FALSE)
       => IF trim(tableRef) = ""
          THEN reqs'[nreq'].pc = "getNext" /\ reqs'[nreq'].tableId = ""
          ELSE IF NamesNoTableOfVendor(vendorId, trim(tableRef))
          THEN PlaceRejectedAsInvalidTable
          ELSE /\ reqs'[nreq'].pc = "getOrders"
               /\ \E t \in NamedTables(vendorId, trim(tableRef)) :
                    reqs'[nreq'].tableId = t.id
               /\ orders' = orders /\ sent' = sent]_vars

\* a request of vendor v2 for "t1", the id of a table of v1 and the number of
\* a table of v2, was rejected
C21_Witness ==
  /\ response.path = "invalidTable"
  /\ response.code = 400
  /\ response.tableRef = "t1"
  /\ reqs[response.req].pc = "done"

\* ------------------------------------------------------------------ C22
\* request r, a setStatus call, ends in this step without success
StatusCallFails(r) ==
  /\ reqs[r].kind = "status"
  /\ reqs'[r].pc = "done"
  /\ response'.req = r
  /\ response'.code # 200

\* C22: a setStatus call that does not succeed (400 for an unrecognized
\* status, 404 for a missing order, or an error of the storage update) leaves
\* every order as stored and leaves the archival timer that was pending for
\* the order when the call arrived uncancelled.
C22_FailedSetStatusChangesNothing ==
  [][ /\ \A orderId \in OrderIds, status \in StatusInputs :
           SetStatus(orderId, status) /\ response'.code = 400
           => orders' = orders /\ timers' = timers /\ archiveTimers' = archiveTimers
      /\ \A r \in Slots :
           StatusCallFails(r) /\ reqs[r].pc = "update"
           => /\ orders' = orders
              /\ reqs[r].existingTimer # 0
                 => timers'[reqs[r].existingTimer].state # "cleared" ]_vars

\* ------------------------------------------------------------------ C23
\* connection c asked for vendorId's events and has not disconnected
Subscribed(c, vendorId) ==
  /\ sockets[c].vendorId = vendorId
  /\ sockets[c].readyState \in {"OPEN", "CLOSING"}

Occurrences(connections, c) ==
  Cardinality({i \in 1..Len(connections) : connections[i] = c})

\* C23: a broadcast to a vendor appends the event exactly once to the inbox
\* of every connection that is subscribed under that vendor and open, and
\* leaves every other inbox as it was (connections of another vendor, without
\* a vendor, closing or closed); a vendor's list holds exactly its subscribed
\* connections, once each; a disconnect takes only that connection off its
\* list and leaves the other connections on theirs in the same order.
C23_BroadcastReachesExactlyTheVendorsOpenConnections ==
  [][ /\ \A vendorId \in Vendors, type \in MessageTypes :
           Broadcast(vendorId, type, 1)
           => \A c \in Conns :
                inbox'[c] = IF Subscribed(c, vendorId) /\ sockets[c].readyState = "OPEN"
                            THEN Append(inbox[c], Message(type, 1))
                            ELSE inbox[c]
      /\ \A c \in Conns, vendorId \in Vendors :
           Occurrences(vendorConnections'[vendorId], c)
             = IF Subscribed(c, vendorId)' THEN 1 ELSE 0
      /\ \A c \in Conns :
           CloseEvent(c)
           => /\ \A vendorId \in Vendors :
                   vendorConnections'[vendorId]
                     = SelectSeq(vendorConnections[vendorId], LAMBDA d : d # c)
              /\ inbox' = inbox ]_vars

\* two broadcasts to v1: one connection of v1 got both, another of v1 that
\* closed in between got only the first, an open connection of v2 got none
C23_Witness ==
  \E c, d, e \in Conns :
    /\ sockets[c] = [vendorId |-> "v1", readyState |-> "OPEN"]
    /\ Len(inbox[c]) = 2
    /\ sockets[d] = [vendorId |-> "v1", readyState |-> "CLOSED"]
    /\ Len(inbox[d]) = 1
    /\ sockets[e] = [vendorId |-> "v2", readyState |-> "OPEN"]
    /\ inbox[e] = <<>>
    /\ vendorConnections["v1"] = <<c>>

\* ------------------------------------------------------------------ C24
\* C24: a bill is write-once. No step of any operation (a repeated
\* setStatus(completed), setStatus to another status, updateItems, a merge,
\* archival) removes a bill or changes a field of a bill that exists, and no
\* step leaves two bills for one order.
C24_BillIsWriteOnce ==
  [][ /\ Len(bills') >= Len(bills)
      /\ \A k \in 1..Len(bills) : bills'[k] = bills[k]
      /\ \A j, k \in 1..Len(bills') :
           j # k => bills'[j].orderId # bills'[k].orderId ]_vars

\* two setStatus(completed) calls for one order both found no bill; the
\* second insert was refused and the order still has its one bill
C24_Witness ==
  /\ response.path = "billThrew"
  /\ Len(bills) = 1
  /\ bills[1].orderId = response.orderId

\* ------------------------------------------------------------------ C25
\* this step is a step of placeOrder call r: its arrival or one of its awaits
PlaceStep(r) ==
  /\ reqs'[r] # reqs[r]
  /\ \/ reqs[r].kind = "place"
     \/ /\ reqs[r].pc = "idle"
        /\ \/ reqs'[r].kind = "place"
           \/ response'.req = r /\ response'.kind = "place"

Event(vendorId, type, orderId) ==
  SetToBag({[vendorId |-> vendorId, type |-> type, orderId |-> orderId]})

\* C25: the step in which a placeOrder call succeeds broadcasts exactly one
\* event to the order's vendor: NEW_ORDER with the new order when the call
\* added an order record, ORDER_UPDATE with the updated order when it merged
\* into an existing one; no other step of a placeOrder call, and so no failed
\* call, broadcasts anything.
C25_PlaceOrderBroadcastsOneEvent ==
  [][\A r \in Slots :
       PlaceStep(r)
       => LET succeeds == reqs'[r].pc = "done" /\ response'.code = 200
              id == response'.orderId IN
          IF succeeds /\ Len(orders') = Len(orders) + 1
          THEN /\ id = Len(orders')
               /\ sent' = sent (+) Event(orders'[id].vendorId, "NEW_ORDER", id)
          ELSE IF succeeds
          THEN /\ orders' = [orders EXCEPT ![id].items = orders'[id].items,
                                           ![id].totalAmount = orders'[id].totalAmount]
               /\ sent' = sent (+) Event(orders[id].vendorId, "ORDER_UPDATE", id)
          ELSE sent' = sent /\ orders' = orders]_vars

\* an order was created and a second call merged into it: one NEW_ORDER and
\* one ORDER_UPDATE for it have been broadcast, and nothing else
C25_Witness ==
  /\ response.path = "merged"
  /\ response.orderId = 1
  /\ sent = Event(orders[1].vendorId, "NEW_ORDER", 1)
              (+) Event(orders[1].vendorId, "ORDER_UPDATE", 1)

\* ------------------------------------------------------------------ C26
\* C26: no lost update between concurrent merges. Whenever a placeOrder call
\* writes its merge, the items it stores are the merge of its incoming items
\* into the items the order holds at that moment, so that the quantities of
\* every call that merged before it are still counted.
C26_NoLostUpdateBetweenMerges ==
  [][\A r \in Slots :
       PlaceMerge(r)
       => IsMergeOf(orders'[reqs[r].orderId].items,
                    orders[reqs[r].orderId].items, reqs[r].items)]_vars

\* ------------------------------------------------------------------ C29
\* C29: a placeOrder merge never writes items into an order whose stored
\* status is completed at the time of the write.
C29_MergeNeverWritesIntoCompletedOrder ==
  [][\A r \in Slots :
       PlaceMerge(r) => orders[reqs[r].orderId].status # "completed"]_vars

\* ------------------------------------------------------------------ C27
\* C27: an updateItems call and a setStatus call for the same order do not
\* overwrite each other. The status write stores the requested status (and
\* completedAt) and changes neither items nor totalAmount of any order; the
\* items write stores the call's validated items and total and changes
\* neither status, completedAt nor archived of any order. So in whichever
\* order the two writes happen, the status is the one set by setStatus and
\* items and total are those written by updateItems.
C27_ItemsAndStatusWritesDoNotOverwrite ==
  [][\A r \in Slots :
       LET q == reqs[r]
           id == q.orderId IN
       /\ StatusUpdate(r) /\ id <= Len(orders)
          => /\ orders'[id].status = q.status
             /\ orders' = [orders EXCEPT ![id].status = q.status,
                                         ![id].completedAt = orders'[id].completedAt]
       /\ ItemsWrite(r)
          => orders' = [orders EXCEPT ![id].items = q.snapItems,
                                      ![id].totalAmount = q.snapTotal]]_vars

\* an updateItems call wrote its items after a setStatus(completed) call
\* wrote the status and before that call ended: the order has both
C27_Witness ==
  /\ response.path = "itemsUpdated"
  /\ response.orderId = 1
  /\ \E r \in Slots : /\ reqs[r].kind = "status" /\ reqs[r].orderId = 1
                      /\ reqs[r].pc = "getBill"
  /\ orders[1].status = "completed"
  /\ orders[1].items # <<Tea1>>

\* ------------------------------------------------------------------ C28
\* C28: in every reachable state every bill equals its order: the bill's
\* totalAmount is the order's stored totalAmount and the bill's items are the
\* order's stored items (name, price, quantity, in order).
C28_BillEqualsItsOrder ==
  \A k \in 1..Len(bills) :
    LET order == orders[bills[k].orderId] IN
    /\ bills[k].totalAmount = order.totalAmount
    /\ bills[k].items = [i \in 1..Len(order.items) |-> BillItem(order.items[i])]

\* ------------------------------------------------------------------ C30
\* C30: ORDER_ARCHIVED is broadcast for an order only by a step that changes
\* the order's archived flag from false to true, hence at most once per order.
C30_OrderArchivedBroadcastOnce ==
  [][\A i \in OrderIds :
       LET e == [vendorId |-> orders[i].vendorId, type |-> "ORDER_ARCHIVED",
                 orderId |-> i] IN
       (i <= Len(orders) /\ CopiesIn(e, sent') > CopiesIn(e, sent))
       => /\ ~orders[i].archived
          /\ orders'[i].archived
          /\ CopiesIn(e, sent') = 1]_vars

====
